---------------------------- MODULE Spec2Model ----------------------------
(***************************************************************************)
(* A model of the MCP tool-calling demo: the chat loop and the tool router *)
(* of mcp_runner.py / mssql_runner.py, the query guard of the two SQL      *)
(* servers (query_sql_mssql, query_sql) and the name resolvers of          *)
(* mssqlserver/server.py and pgserver/server.py.                           *)
(*                                                                         *)
(* Three specifications share the variables:                               *)
(*   Spec          the runner: chat() and run_tool()                       *)
(*   SpecGuard     one call of query_sql_mssql / query_sql                 *)
(*   SpecResolver  a server answering resolver calls over one table        *)
(***************************************************************************)
EXTENDS Integers, Sequences, FiniteSets, TLC

VARIABLES
    \* ---- runner (chat, run_tool) ----
    runner,      \* which runner file is running: "mcp_runner" or "mssql_runner"
    messages,    \* chat(): the list `messages`
    pc,          \* chat()/run_tool(): the line the coroutine is at
    msg,         \* chat(): `msg`, the model's last response
    functions,   \* the `functions=` argument of the last model call (tool names)
    result,      \* chat(): `result`, the value run_tool returned
    srv,         \* run_tool(): `srv`, the looked-up server parameters
    procs,       \* the server subprocesses alive (stdio_client contexts open)
    sess,        \* run_tool(): state of the ClientSession `sess`
    res,         \* run_tool(): structuredContent of the tool result
    trace,       \* what the current/last run_tool invocation did to the backends
    err,         \* the exception that ended chat(), "none" while it runs
    turnStart,   \* Len(messages) when the current turn's input was read
    turnCalls,   \* the tool names the model requested in the current turn
    \* ---- query guard (query_sql_mssql, query_sql) ----
    gTool,       \* the tool called: "query_sql_mssql" or "query_sql"
    gArg,        \* the argument `sql` as the caller passed it
    gSql,        \* the local variable `sql` (query_sql_mssql reassigns it)
    gLimit,      \* the argument `limit`
    gPc,         \* the line the tool is at
    gExec,       \* the statements handed to the database, in order
    gOut,        \* how the call ended: "ValueError", "rows", "error_payload", "raised"
    gDb,         \* the rows the database has for the statement, in its order
    gRet,        \* the list of rows the tool returned
    \* ---- resolvers ----
    rTool,       \* the resolver tool the server runs
    table,       \* the rows of the table the resolver reads
    keyword,     \* the argument of the call in progress
    rPc,         \* the line the resolver is at
    rResult,     \* the value the call in progress returned
    prev,        \* the previous completed call: its keyword and result
    \* ---- get_pool in one server process ----
    pServer,     \* the server whose process this is: "mssqlserver" or "pgserver"
    pool,        \* the module global `_pool` (NoPool: None)
    poolsCreated,\* how many pools create_pool has made in this process
    hPc,         \* per tool handler: where it is in get_pool
    hGot         \* per tool handler: what its last get_pool call gave it

runnerVars == <<runner, messages, pc, msg, functions, result, srv, procs, sess,
                res, trace, err, turnStart, turnCalls>>
guardVars == <<gTool, gArg, gSql, gLimit, gPc, gExec, gOut, gDb, gRet>>
resolverVars == <<rTool, table, keyword, rPc, rResult, prev>>
poolVars == <<pServer, pool, poolsCreated, hPc, hGot>>
vars == <<runnerVars, guardVars, resolverVars, poolVars>>

(***************************************************************************)
(* Bounds of the model.                                                    *)
(***************************************************************************)
\* The chat history is explored up to this many messages.
MaxMessages == 8
\* A SQL text is a lead, a first word and up to this many further pieces.
MaxBody == 2
\* A table holds up to this many rows.
MaxRows == 2
\* A query returns up to this many rows.
MaxFetched == 2
\* This many tool handlers run concurrently in one server process.
MaxHandlers == 3

-----------------------------------------------------------------------------
(***************************************************************************)
(* The runner: TOOL_ROUTE, run_tool, chat.                                 *)
(***************************************************************************)
Runners == {"mcp_runner", "mssql_runner"}

\* (mutant) the route table lacks the entry of `add`
McpToolRouteNoAdd ==
    [n \in {"list_tables", "query_sql", "resolve_stock_id", "describe_table",
            "resolve_stock_name"} |-> "PG_SERVER"]

\* mcp_runner.py TOOL_ROUTE
McpToolRoute ==
    [n \in {"list_tables", "query_sql", "resolve_stock_id", "describe_table",
            "resolve_stock_name"} |-> "PG_SERVER"]
    @@ [n \in {"add"} |-> "WX_SERVER"]

\* mssql_runner.py TOOL_ROUTE
MssqlToolRoute ==
    [n \in {"query_sql_mssql", "read_schema_csv", "resolve_stock_id_mssql",
            "resolve_stock_industry", "list_stocks_by_industry",
            "resolve_stock_name_mssql"} |-> "MSSQL_SERVER"]

TOOL_ROUTE == IF runner = "mcp_runner" THEN McpToolRoute ELSE MssqlToolRoute

\* mcp_runner.py tool_schemas: the "name" of each entry
McpToolSchemas ==
    {"list_tables", "query_sql", "resolve_stock_id", "describe_table",
     "resolve_stock_name", "add"}

\* mssql_runner.py tool_schemas: the "name" of each entry
MssqlToolSchemas ==
    {"query_sql_mssql", "read_schema_csv", "resolve_stock_id_mssql",
     "resolve_stock_name_mssql", "resolve_stock_industry",
     "list_stocks_by_industry"}

tool_schemas == IF runner = "mcp_runner" THEN McpToolSchemas ELSE MssqlToolSchemas

\* The servers each runner declares (StdioServerParameters objects).
Servers == {"PG_SERVER", "WX_SERVER", "MSSQL_SERVER"}

\* The names the model's function_call may carry: the language model is an
\* external collaborator and may return any name, routed or not.  Two routed
\* names per runner and one name no route table holds.
RequestedNames ==
    IF runner = "mcp_runner"
    THEN {"query_sql", "add", "no_such_tool"}
    ELSE {"query_sql_mssql", "resolve_stock_id_mssql", "no_such_tool"}

\* call.arguments is a string: JSON text that fits the tool's parameter
\* schema, JSON text that does not, or text that is not JSON.
ArgumentTexts == {"json", "json_off_schema", "not_json"}

\* the texts json.loads() decodes (chat() validates nothing against a schema)
Decodable == {"json", "json_off_schema"}

\* what stdio_client / ClientSession raise on a transport or process failure:
\* the subprocess cannot be started (OSError), the channel closes or the
\* request fails (McpError)
TransportFaults == {"OSError", "McpError"}

\* res.structuredContent of a returned CallToolResult: a JSON-compatible
\* value, or None when the tool answered with an error result.
StructuredContents == {"rows", "None"}

\* json.dumps(result)
JsonDumps(v) == IF v = "None" THEN "null" ELSE <<"json", v>>

NoMsg == [role |-> "none", kind |-> "none", name |-> "-", content |-> "-"]
SystemMsg == [role |-> "system", kind |-> "text", name |-> "-", content |-> "SYSTEM_PROMPT"]
UserMsg == [role |-> "user", kind |-> "text", name |-> "-", content |-> "user"]
TextMsg == [role |-> "assistant", kind |-> "text", name |-> "-", content |-> "answer"]
CallMsg(n, a) == [role |-> "assistant", kind |-> "call", name |-> n, content |-> a]
FunctionMsg(n, v) == [role |-> "function", kind |-> "result", name |-> n, content |-> JsonDumps(v)]

RunnerInit ==
    /\ runner \in Runners
    /\ messages = <<SystemMsg>>
    /\ pc = "input"
    /\ msg = NoMsg
    /\ functions = {}
    /\ result = "none"
    /\ srv = "none"
    /\ procs = {}
    /\ sess = "none"
    /\ res = "none"
    /\ trace = <<>>
    /\ err = "none"
    /\ turnStart = 0
    /\ turnCalls = <<>>

RunnerIdle ==
    /\ runner = "mcp_runner"
    /\ messages = <<SystemMsg>>
    /\ pc = "off"
    /\ msg = NoMsg
    /\ functions = {}
    /\ result = "none"
    /\ srv = "none"
    /\ procs = {}
    /\ sess = "none"
    /\ res = "none"
    /\ trace = <<>>
    /\ err = "none"
    /\ turnStart = 0
    /\ turnCalls = <<>>

\* (mutant) an exception leaves the session and its subprocess as they are
RaiseLeavesOpen(e) ==
    /\ pc' = "crashed"
    /\ err' = e
    /\ UNCHANGED <<procs, sess>>

\* An exception leaves chat(): asyncio.run re-raises it and the process ends
\* (__main__ catches KeyboardInterrupt only).  Every `async with` of run_tool
\* is left on the way, which closes the session and ends the subprocess.
Raise(e) ==
    /\ pc' = "crashed"
    /\ err' = e
    /\ procs' = {}
    /\ sess' = IF sess = "none" THEN "none" ELSE "closed"

\* user = input(); messages.append({"role": "user", ...})
ReadUser ==
    /\ pc = "input"
    /\ Len(messages) + 2 <= MaxMessages
    /\ messages' = Append(messages, UserMsg)
    /\ turnStart' = Len(messages)
    /\ turnCalls' = <<>>
    /\ pc' = "model"
    /\ UNCHANGED <<runner, functions, result, msg, srv, procs, sess, res, trace, err>>
    /\ UNCHANGED <<guardVars, resolverVars, poolVars>>

\* resp = client.chat.completions.create(...); msg = resp.choices[0].message
\* with no function_call: the text is printed.
ModelAnswers ==
    /\ pc = "model"
    /\ msg' = TextMsg
    /\ functions' = tool_schemas
    /\ pc' = "answer"
    /\ UNCHANGED <<runner, result, messages, srv, procs, sess, res, trace, err,
                   turnStart, turnCalls>>
    /\ UNCHANGED <<guardVars, resolverVars, poolVars>>

\* (mutant) the inner loop gives up after one tool call of a turn
ModelCallsToolCapped ==
    /\ pc = "model"
    /\ Len(turnCalls) < 1
    /\ Len(messages) + 3 <= MaxMessages
    /\ \E n \in RequestedNames, a \in ArgumentTexts : msg' = CallMsg(n, a)
    /\ turnCalls' = Append(turnCalls, msg'.name)
    /\ functions' = tool_schemas
    /\ pc' = "parse"
    /\ UNCHANGED <<runner, result, messages, srv, procs, sess, res, trace, err, turnStart>>
    /\ UNCHANGED <<guardVars, resolverVars, poolVars>>

\* the same call, answered with a function_call
ModelCallsTool ==
    /\ pc = "model"
    /\ Len(messages) + 3 <= MaxMessages
    /\ \E n \in RequestedNames, a \in ArgumentTexts : msg' = CallMsg(n, a)
    /\ turnCalls' = Append(turnCalls, msg'.name)
    /\ functions' = tool_schemas
    /\ pc' = "parse"
    /\ UNCHANGED <<runner, result, messages, srv, procs, sess, res, trace, err, turnStart>>
    /\ UNCHANGED <<guardVars, resolverVars, poolVars>>

\* name = call.name; args = json.loads(call.arguments)
ParseArguments ==
    /\ pc = "parse"
    /\ \/ /\ msg.content \in Decodable
          /\ pc' = "run_tool"
          /\ UNCHANGED <<procs, sess, err>>
       \/ /\ msg.content \notin Decodable
          /\ Raise("JSONDecodeError")
    /\ UNCHANGED <<runner, functions, result, messages, msg, srv, res, trace, turnStart, turnCalls>>
    /\ UNCHANGED <<guardVars, resolverVars, poolVars>>

\* (mutant) the lookup falls back to a default server: TOOL_ROUTE.get(name, ...)
RouteLookupWithDefault ==
    /\ pc = "run_tool"
    /\ trace' = <<>>
    /\ srv' = IF msg.name \in DOMAIN TOOL_ROUTE THEN TOOL_ROUTE[msg.name]
              ELSE IF runner = "mcp_runner" THEN "PG_SERVER" ELSE "MSSQL_SERVER"
    /\ pc' = "spawn"
    /\ UNCHANGED <<procs, sess, err>>
    /\ UNCHANGED <<runner, functions, result, messages, msg, res, turnStart, turnCalls>>
    /\ UNCHANGED <<guardVars, resolverVars, poolVars>>

\* (mutant) an unrouted name is skipped and the model is asked again
RouteLookupSwallows ==
    /\ pc = "run_tool"
    /\ trace' = <<>>
    /\ \/ /\ msg.name \in DOMAIN TOOL_ROUTE
          /\ srv' = TOOL_ROUTE[msg.name]
          /\ pc' = "spawn"
       \/ /\ msg.name \notin DOMAIN TOOL_ROUTE
          /\ srv' = "none"
          /\ pc' = "model"
    /\ UNCHANGED <<procs, sess, err>>
    /\ UNCHANGED <<runner, functions, result, messages, msg, res, turnStart, turnCalls>>
    /\ UNCHANGED <<guardVars, resolverVars, poolVars>>

\* run_tool: srv = TOOL_ROUTE[name]
RouteLookup ==
    /\ pc = "run_tool"
    /\ trace' = <<>>
    /\ \/ /\ msg.name \in DOMAIN TOOL_ROUTE
          /\ srv' = TOOL_ROUTE[msg.name]
          /\ pc' = "spawn"
          /\ UNCHANGED <<procs, sess, err>>
       \/ /\ msg.name \notin DOMAIN TOOL_ROUTE
          /\ srv' = "none"
          /\ Raise("KeyError")
    /\ UNCHANGED <<runner, functions, result, messages, msg, res, turnStart, turnCalls>>
    /\ UNCHANGED <<guardVars, resolverVars, poolVars>>

\* async with stdio_client(srv) as (r, w): async with ClientSession(r, w)
OpenSession ==
    /\ pc = "spawn"
    /\ \/ /\ procs' = procs \cup {srv}
          /\ sess' = "open"
          /\ trace' = Append(trace, <<"spawn", srv>>)
          /\ pc' = "initialize"
          /\ UNCHANGED err
       \/ /\ Raise("OSError")
          /\ UNCHANGED trace
    /\ UNCHANGED <<runner, functions, result, messages, msg, srv, res, turnStart, turnCalls>>
    /\ UNCHANGED <<guardVars, resolverVars, poolVars>>

\* (mutant) the call is sent on a session that was never initialized
InitializeSkipped ==
    /\ pc = "initialize"
    /\ pc' = "call_tool"
    /\ UNCHANGED <<procs, sess, err, trace>>
    /\ UNCHANGED <<runner, functions, result, messages, msg, srv, res, turnStart, turnCalls>>
    /\ UNCHANGED <<guardVars, resolverVars, poolVars>>

\* await sess.initialize()
Initialize ==
    /\ pc = "initialize"
    /\ \/ /\ sess' = "initialized"
          /\ trace' = Append(trace, <<"initialize", srv>>)
          /\ pc' = "call_tool"
          /\ UNCHANGED <<procs, err>>
       \/ /\ Raise("McpError")
          /\ trace' = Append(trace, <<"initialize_failed", srv>>)
    /\ UNCHANGED <<runner, functions, result, messages, msg, srv, res, turnStart, turnCalls>>
    /\ UNCHANGED <<guardVars, resolverVars, poolVars>>

\* res = await sess.call_tool(name, args)
CallTool ==
    /\ pc = "call_tool"
    /\ \/ /\ trace' = Append(trace, <<"call_tool", srv, msg.name, sess>>)
          /\ \E v \in StructuredContents : res' = v
          /\ pc' = "return"
          /\ UNCHANGED <<procs, sess, err>>
       \/ /\ Raise("McpError")
          /\ trace' = Append(trace, <<"call_tool_failed", srv, msg.name, sess>>)
          /\ UNCHANGED res
    /\ UNCHANGED <<runner, functions, result, messages, msg, srv, turnStart, turnCalls>>
    /\ UNCHANGED <<guardVars, resolverVars, poolVars>>

\* (mutant) run_tool returns without leaving its `async with` blocks
ReturnResultKeepsSession ==
    /\ pc = "return"
    /\ result' = res
    /\ pc' = "append"
    /\ UNCHANGED <<procs, sess, trace>>
    /\ UNCHANGED <<runner, functions, messages, msg, srv, res, err, turnStart, turnCalls>>
    /\ UNCHANGED <<guardVars, resolverVars, poolVars>>

\* (mutant) a missing payload is replaced: return res.structuredContent or {}
ReturnResultOrEmpty ==
    /\ pc = "return"
    /\ procs' = procs \ {srv}
    /\ sess' = "closed"
    /\ trace' = Append(trace, <<"close", srv>>)
    /\ result' = IF res = "None" THEN "empty" ELSE res
    /\ pc' = "append"
    /\ UNCHANGED <<runner, functions, messages, msg, srv, res, err, turnStart, turnCalls>>
    /\ UNCHANGED <<guardVars, resolverVars, poolVars>>

\* leaving both `async with` blocks; return res.structuredContent (mssql_runner:
\* sc = res.structuredContent, the debug prints, return sc), bound to `result`
ReturnResult ==
    /\ pc = "return"
    /\ procs' = procs \ {srv}
    /\ sess' = "closed"
    /\ trace' = Append(trace, <<"close", srv>>)
    /\ result' = res
    /\ pc' = "append"
    /\ UNCHANGED <<runner, functions, messages, msg, srv, res, err, turnStart, turnCalls>>
    /\ UNCHANGED <<guardVars, resolverVars, poolVars>>

\* (mutant) the tool-call message is appended without its result
AppendCallOnly ==
    /\ pc = "append"
    /\ messages' = Append(messages, msg)
    /\ pc' = "model"
    /\ UNCHANGED <<runner, functions, result, msg, srv, procs, sess, res, trace, err, turnStart, turnCalls>>
    /\ UNCHANGED <<guardVars, resolverVars, poolVars>>

\* messages.append(msg); messages.append({"role": "function", "name": name,
\* "content": json.dumps(result)}); continue
AppendCallAndResult ==
    /\ pc = "append"
    /\ messages' = messages \o <<msg, FunctionMsg(msg.name, result)>>
    /\ pc' = "model"
    /\ UNCHANGED <<runner, functions, result, msg, srv, procs, sess, res, trace, err, turnStart, turnCalls>>
    /\ UNCHANGED <<guardVars, resolverVars, poolVars>>

\* (mutant) the answer is printed and not appended
AppendAnswerDropped ==
    /\ pc = "answer"
    /\ pc' = "input"
    /\ UNCHANGED <<runner, functions, result, messages, msg, srv, procs, sess, res, trace,
                   err, turnStart, turnCalls>>
    /\ UNCHANGED <<guardVars, resolverVars, poolVars>>

\* print("Assistant ->", ...); messages.append(msg); break
AppendAnswer ==
    /\ pc = "answer"
    /\ messages' = Append(messages, msg)
    /\ pc' = "input"
    /\ UNCHANGED <<runner, functions, result, msg, srv, procs, sess, res, trace, err,
                   turnStart, turnCalls>>
    /\ UNCHANGED <<guardVars, resolverVars, poolVars>>

-----------------------------------------------------------------------------
(***************************************************************************)
(* Text.  A Python str is a sequence of one-character strings; "FW" stands *)
(* for the one character U+3000 (full-width space).                        *)
(***************************************************************************)
FW == "FW"

UpperLetters == <<"A","B","C","D","E","F","G","H","I","J","K","L","M",
                  "N","O","P","Q","R","S","T","U","V","W","X","Y","Z">>
LowerLetters == <<"a","b","c","d","e","f","g","h","i","j","k","l","m",
                  "n","o","p","q","r","s","t","u","v","w","x","y","z">>
Digits == <<"0","1","2","3","4","5","6","7","8","9">>

Range(f) == {f[i] : i \in DOMAIN f}

\* str.isspace() of one character, as str.strip() and the regex \s use it
IsSpace(c) == c \in {" ", "\t", "\n", FW}

\* a character the regex \w matches
IsWordChar(c) == c \in Range(UpperLetters) \cup Range(LowerLetters) \cup Range(Digits) \cup {"_"}

LowerChar(c) ==
    IF c \in Range(UpperLetters)
    THEN LowerLetters[CHOOSE i \in DOMAIN UpperLetters : UpperLetters[i] = c]
    ELSE c

\* str.lower()
Lower(s) == [i \in DOMAIN s |-> LowerChar(s[i])]

\* number of leading / trailing whitespace characters
LeadingSpaces(s) ==
    IF \A i \in DOMAIN s : IsSpace(s[i]) THEN Len(s)
    ELSE (CHOOSE i \in DOMAIN s : ~IsSpace(s[i]) /\ \A j \in 1..(i-1) : IsSpace(s[j])) - 1

TrailingSpaces(s) ==
    IF \A i \in DOMAIN s : IsSpace(s[i]) THEN Len(s)
    ELSE Len(s) - (CHOOSE i \in DOMAIN s : ~IsSpace(s[i]) /\ \A j \in (i+1)..Len(s) : IsSpace(s[j]))

\* str.strip()
Strip(s) ==
    IF LeadingSpaces(s) = Len(s) THEN <<>>
    ELSE SubSeq(s, LeadingSpaces(s) + 1, Len(s) - TrailingSpaces(s))

\* s.startswith(p)
StartsWith(s, p) == Len(p) <= Len(s) /\ SubSeq(s, 1, Len(p)) = p

\* p in s
Contains(s, p) == \E i \in 0..(Len(s) - Len(p)) : SubSeq(s, i + 1, i + Len(p)) = p

\* s.replace(c, "") for a one-character c
RemoveChar(s, c) == SelectSeq(s, LAMBDA x : x # c)

\* str(n) of an int
RECURSIVE NatToStr(_)
NatToStr(n) == IF n < 10 THEN <<Digits[n + 1]>> ELSE NatToStr(n \div 10) \o <<Digits[(n % 10) + 1]>>
IntToStr(n) == IF n < 0 THEN <<"-">> \o NatToStr(-n) ELSE NatToStr(n)

\* the concatenation of a sequence of texts
RECURSIVE Concat(_)
Concat(ss) == IF ss = <<>> THEN <<>> ELSE Head(ss) \o Concat(Tail(ss))

\* the literals of the guard
KwSelect == <<"s","e","l","e","c","t">>
KwWith == <<"w","i","t","h">>
KwExplain == <<"e","x","p","l","a","i","n">>
KwTop == <<" ","t","o","p"," ">>
KwFetchNext == <<" ","f","e","t","c","h"," ","n","e","x","t"," ">>
KwOrderBy == <<" ","o","r","d","e","r"," ","b","y"," ">>

-----------------------------------------------------------------------------
(***************************************************************************)
(* The query guard: query_sql_mssql (mssqlserver) and query_sql (pgserver).*)
(***************************************************************************)
GuardTools == {"query_sql_mssql", "query_sql"}

\* (mutant) the restrictive dialect takes the generic dialect's prefixes
MssqlAcceptsExplain(sql) ==
    LET low == Lower(Strip(sql))
    IN  StartsWith(low, KwSelect) \/ StartsWith(low, KwWith) \/ StartsWith(low, KwExplain)

\* low.startswith(("select", "with"))  /  ...startswith(("select", "with", "explain"))
MssqlAccepts(sql) ==
    LET low == Lower(Strip(sql))
    IN  StartsWith(low, KwSelect) \/ StartsWith(low, KwWith)

PgAccepts(sql) ==
    LET low == Lower(Strip(sql))
    IN  StartsWith(low, KwSelect) \/ StartsWith(low, KwWith) \/ StartsWith(low, KwExplain)

\* the regex ^\s*select\b with re.I matches at the start of sql
SelectMatches(sql) ==
    LET k == LeadingSpaces(sql)
    IN  /\ Len(sql) >= k + 6
        /\ Lower(SubSeq(sql, k + 1, k + 6)) = KwSelect
        /\ (Len(sql) = k + 6 \/ ~IsWordChar(sql[k + 7]))

\* (mutant) no blank between TOP and the parenthesis
TopClauseNoBlank(limit) ==
    <<"S","E","L","E","C","T"," ","T","O","P","(">> \o IntToStr(limit) \o <<")">>

\* f"SELECT TOP ({limit})"
TopClause(limit) ==
    <<"S","E","L","E","C","T"," ","T","O","P"," ","(">> \o IntToStr(limit) \o <<")">>

\* re.sub(r"^\s*select\b", f"SELECT TOP ({limit})", sql, count=1, flags=re.I)
SubSelectTop(sql, limit) ==
    IF SelectMatches(sql)
    THEN TopClause(limit) \o SubSeq(sql, LeadingSpaces(sql) + 7, Len(sql))
    ELSE sql

\* f" OFFSET 0 ROWS FETCH NEXT {limit} ROWS ONLY"
FetchClause(limit) ==
    <<" ","O","F","F","S","E","T"," ","0"," ","R","O","W","S"," ",
      "F","E","T","C","H"," ","N","E","X","T"," ">> \o IntToStr(limit)
    \o <<" ","R","O","W","S"," ","O","N","L","Y">>

\* (mutant) the FETCH clause is appended to the trimmed text
MssqlRewriteStripped(sql, limit) ==
    LET low == Lower(Strip(sql))
    IN  IF /\ ~Contains(low, KwTop)
           /\ ~Contains(low, KwFetchNext)
           /\ ~Contains(low, KwOrderBy)
        THEN SubSelectTop(sql, limit)
        ELSE IF ~Contains(low, KwFetchNext) /\ Contains(low, KwOrderBy)
             THEN Strip(sql) \o FetchClause(limit)
             ELSE sql

\* the auto-limit of query_sql_mssql: the value of `sql` after the if / elif
MssqlRewrite(sql, limit) ==
    LET low == Lower(Strip(sql))
    IN  IF /\ ~Contains(low, KwTop)
           /\ ~Contains(low, KwFetchNext)
           /\ ~Contains(low, KwOrderBy)
        THEN SubSelectTop(sql, limit)
        ELSE IF ~Contains(low, KwFetchNext) /\ Contains(low, KwOrderBy)
             THEN sql \o FetchClause(limit)
             ELSE sql

\* The SQL texts of the model.
Leads == {<<>>, <<" ">>}
FirstWords ==
    { KwSelect, <<"S","E","L","E","C","T">>, KwWith, KwExplain,
      <<"d","e","l","e","t","e">> }
Pieces ==
    { <<" ">>, <<"x">>, <<"t","o","p">>,
      <<" ","t","o","p"," ","5">>,
      <<" ","o","r","d","e","r"," ","b","y"," ","x">>,
      <<"\n","o","r","d","e","r"," ","b","y"," ","x">>,
      <<" ","f","e","t","c","h"," ","n","e","x","t"," ","5">>,
      <<" ","*"," ","f","r","o","m"," ","p","r","i","c","e","s">> }
Bodies == UNION { [1..n -> Pieces] : n \in 0..MaxBody }
SqlTexts == { l \o w \o Concat(b) : l \in Leads, w \in FirstWords, b \in Bodies }
Limits == {5, 500}

\* the rows of a result, in the order the database returns them
AllRows == [i \in 1..MaxFetched |-> i]
Fetched(n) == SubSeq(AllRows, 1, n)

\* (mutant) a negative limit is clamped to no rows
SliceClamped(rows, limit) ==
    IF limit >= 0
    THEN SubSeq(rows, 1, IF limit < Len(rows) THEN limit ELSE Len(rows))
    ELSE <<>>

\* rows[:limit]: the first `limit` rows; for a negative limit all but the
\* last -limit rows
Slice(rows, limit) ==
    IF limit >= 0
    THEN SubSeq(rows, 1, IF limit < Len(rows) THEN limit ELSE Len(rows))
    ELSE SubSeq(rows, 1, IF Len(rows) + limit > 0 THEN Len(rows) + limit ELSE 0)

\* the texts and limits of the query_sql calls of SpecPgQuery
PgTexts ==
    { l \o w \o b : l \in Leads, w \in FirstWords,
                    b \in {<<>>, <<" ","*"," ","f","r","o","m"," ","p","r","i","c","e","s">>} }
PgLimits == (0 - MaxFetched)..(MaxFetched + 1)

GuardInit ==
    /\ gTool \in GuardTools
    /\ gArg \in SqlTexts
    /\ gSql = gArg
    /\ gLimit \in Limits
    /\ gPc = "check"
    /\ gExec = <<>>
    /\ gOut = "none"
    /\ gDb = AllRows
    /\ gRet = <<>>

\* one call of pgserver's query_sql with a limit of either sign over a
\* result of 0..MaxFetched rows
PgQueryInit ==
    /\ gTool = "query_sql"
    /\ gArg \in PgTexts
    /\ gSql = gArg
    /\ gLimit \in PgLimits
    /\ gPc = "check"
    /\ gExec = <<>>
    /\ gOut = "none"
    /\ gDb \in { Fetched(n) : n \in 0..MaxFetched }
    /\ gRet = <<>>

GuardIdle ==
    /\ gTool = "query_sql"
    /\ gArg = <<>>
    /\ gSql = <<>>
    /\ gLimit = 500
    /\ gPc = "off"
    /\ gExec = <<>>
    /\ gOut = "none"
    /\ gDb = <<>>
    /\ gRet = <<>>

\* the prefix check and its raise ValueError
GuardCheck ==
    /\ gPc = "check"
    /\ \/ /\ gTool = "query_sql_mssql"
          /\ MssqlAccepts(gSql)
          /\ gPc' = "rewrite"
          /\ UNCHANGED gOut
       \/ /\ gTool = "query_sql"
          /\ PgAccepts(gSql)
          /\ gPc' = "pool"
          /\ UNCHANGED gOut
       \/ /\ IF gTool = "query_sql_mssql" THEN ~MssqlAccepts(gSql) ELSE ~PgAccepts(gSql)
          /\ gPc' = "done"
          /\ gOut' = "ValueError"
    /\ UNCHANGED <<gTool, gArg, gSql, gLimit, gExec, gDb, gRet>>
    /\ UNCHANGED <<runnerVars, resolverVars, poolVars>>

\* query_sql_mssql: the auto-limit
GuardRewrite ==
    /\ gPc = "rewrite"
    /\ gSql' = MssqlRewrite(gSql, gLimit)
    /\ gPc' = "pool"
    /\ UNCHANGED <<gTool, gArg, gLimit, gExec, gOut, gDb, gRet>>
    /\ UNCHANGED <<runnerVars, resolverVars, poolVars>>

\* what a database failure becomes: query_sql_mssql catches every exception
\* and returns {"error", "sql"}; query_sql lets it propagate
GuardFailure == IF gTool = "query_sql_mssql" THEN "error_payload" ELSE "raised"

\* pool = await get_pool(); async with pool.acquire() as conn
GuardAcquire ==
    /\ gPc = "pool"
    /\ \/ /\ gPc' = "execute"
          /\ UNCHANGED gOut
       \/ /\ gPc' = "done"
          /\ gOut' = GuardFailure
    /\ UNCHANGED <<gTool, gArg, gSql, gLimit, gExec, gDb, gRet>>
    /\ UNCHANGED <<runnerVars, resolverVars, poolVars>>

\* await cur.execute(sql); rows = await cur.fetchall(); return [... for r in rows]
\* await conn.fetch(sql); return [dict(r) for r in rows[:limit]]
GuardExecute ==
    /\ gPc = "execute"
    /\ gExec' = Append(gExec, gSql)
    /\ gPc' = "done"
    /\ \/ /\ gOut' = "rows"
          /\ gRet' = IF gTool = "query_sql" THEN Slice(gDb, gLimit) ELSE gDb
       \/ /\ gOut' = GuardFailure
          /\ UNCHANGED gRet
    /\ UNCHANGED <<gTool, gArg, gSql, gLimit, gDb>>
    /\ UNCHANGED <<runnerVars, resolverVars, poolVars>>

-----------------------------------------------------------------------------
(***************************************************************************)
(* The database as the resolvers' queries see it.                          *)
(***************************************************************************)
\* SQL NULL (no text is this sequence: "NULL" is not a character)
Null == <<"NULL">>

\* T-SQL compares strings ignoring trailing spaces (ANSI padding)
RTrim(s) ==
    IF \A i \in DOMAIN s : s[i] = " " THEN <<>>
    ELSE SubSeq(s, 1, CHOOSE i \in DOMAIN s : s[i] # " " /\ \A j \in (i+1)..Len(s) : s[j] = " ")

\* a = b in a T-SQL WHERE clause (NULL compares equal to nothing)
SqlEq(a, b) == a # Null /\ b # Null /\ RTrim(a) = RTrim(b)

\* a LIKE '%' + kw + '%' for a keyword without wildcard characters
SqlLikeContains(a, kw) == a # Null /\ Contains(a, kw)

\* the helper nosp(col):
\* REPLACE(REPLACE(REPLACE(col, N' ', N''), NCHAR(12288), N''), CHAR(9), N'')
Nosp(v) == IF v = Null THEN Null ELSE RemoveChar(RemoveChar(RemoveChar(v, " "), FW), "\t")

\* the order of characters in ORDER BY
CharOrder == <<"\t", "\n", " ", "0","1","2","3","4","5","6","7","8","9", FW>>
Rank(c) == CHOOSE i \in DOMAIN CharOrder : CharOrder[i] = c

\* a < b, character by character
RECURSIVE LexLess(_, _)
LexLess(a, b) ==
    IF b = <<>> THEN FALSE
    ELSE IF a = <<>> THEN TRUE
    ELSE IF Head(a) = Head(b) THEN LexLess(Tail(a), Tail(b))
    ELSE Rank(Head(a)) < Rank(Head(b))

-----------------------------------------------------------------------------
(***************************************************************************)
(* The resolvers.                                                          *)
(***************************************************************************)
ResolverTools == {"resolve_stock_id_mssql", "resolve_stock_industry",
                  "resolve_stock_id", "resolve_stock_name"}

NoResult == [kind |-> "none", id |-> Null, column |-> "-", value |-> Null]
\* the return value {}
EmptyResult == [kind |-> "empty", id |-> Null, column |-> "-", value |-> Null]
\* the call ended with an exception of the database driver
RaisedResult == [kind |-> "raised", id |-> Null, column |-> "database", value |-> Null]
Match(i, c, v) == [kind |-> "match", id |-> i, column |-> c, value |-> v]

\* kw_raw = keyword.strip()
KwRaw(kw) == Strip(kw)
\* (mutant) only the ASCII blank is removed
KwNsAsciiOnly(kw) == RemoveChar(KwRaw(kw), " ")

\* kw_ns = kw_raw.replace(" ", "").replace("\u3000", "").replace("\t", "")
KwNs(kw) == RemoveChar(RemoveChar(RemoveChar(KwRaw(kw), " "), FW), "\t")

\* ---- resolve_stock_id_mssql over stScuSecuBasC ----
AliasColumns == <<"name", "name3", "name4", "nameV2", "nameAbbrV2">>

\* (mutant) stage 1 is given kw_ns, the keyword without its inner blanks
StockStage1RowsNs(t, kw) ==
    { Match(r.id, "listCode", r.listCode) : r \in { x \in t : SqlEq(x.listCode, KwNs(kw)) } }

\* stage 1: SELECT id, 'listCode', listCode FROM stScuSecuBasC WHERE listCode = ?
StockStage1Rows(t, kw) ==
    { Match(r.id, "listCode", r.listCode) : r \in { x \in t : SqlEq(x.listCode, KwRaw(kw)) } }

\* the derived table u: (id, colname, alias, alias_ns), the UNION ALL of the
\* five alias columns
StockAliases(t) ==
    { [id |-> r.id, colname |-> AliasColumns[c], alias |-> r[AliasColumns[c]],
       alias_ns |-> Nosp(r[AliasColumns[c]])] : r \in t, c \in DOMAIN AliasColumns }

\* stage 2: ... WHERE alias_ns = @kw, returned as {id, matched_column,
\* matched_value: row[2].strip()}
StockStage2Rows(t, kw) ==
    { Match(u.id, u.colname, Strip(u.alias)) :
        u \in { x \in StockAliases(t) : SqlEq(x.alias_ns, KwNs(kw)) } }

\* stage 3: ... WHERE alias_ns LIKE '%' + @kw + '%'
StockStage3Rows(t, kw) ==
    { Match(u.id, u.colname, Strip(u.alias)) :
        u \in { x \in StockAliases(t) : SqlLikeContains(x.alias_ns, KwNs(kw)) } }

\* ---- resolve_stock_industry over misc.dbo.mtIndustryC ----
IndustryColumns == <<"name", "nameEng", "nameAbbr">>

\* the derived table u: (id, colname, alias) ... WHERE <col> IS NOT NULL
IndustryAliases(t) ==
    { u \in { [id |-> r.id, colname |-> IndustryColumns[c], alias |-> r[IndustryColumns[c]]] :
                r \in t, c \in DOMAIN IndustryColumns } : u.alias # Null }

\* (mutant) the exact stage compares keyword and alias without their blanks
IndustryExactRowsNs(t, kw) ==
    { Match(u.id, u.colname, Strip(u.alias)) :
        u \in { x \in IndustryAliases(t) : SqlEq(Nosp(x.alias), KwNs(kw)) } }

\* stage 1: SELECT TOP (1) ... WHERE alias = ?   with kw = keyword.strip()
IndustryExactRows(t, kw) ==
    { Match(u.id, u.colname, Strip(u.alias)) :
        u \in { x \in IndustryAliases(t) : SqlEq(x.alias, KwRaw(kw)) } }

\* ORDER BY LEN(alias), alias: LEN ignores trailing spaces, as the comparison does
AliasBefore(a, b) ==
    \/ Len(RTrim(a)) < Len(RTrim(b))
    \/ Len(RTrim(a)) = Len(RTrim(b)) /\ LexLess(RTrim(a), RTrim(b))

\* stage 2: SELECT TOP (1) ... WHERE alias LIKE '%kw%' ORDER BY LEN(alias), alias
IndustryLikeRows(t, kw) ==
    LET hits == { x \in IndustryAliases(t) : SqlLikeContains(x.alias, KwRaw(kw)) }
        first == { x \in hits : \A y \in hits : ~AliasBefore(y.alias, x.alias) }
    IN  { Match(u.id, u.colname, Strip(u.alias)) : u \in first }


\* ---- resolve_stock_id / resolve_stock_name over stock_alias (PostgreSQL) ----
IsAlnum(c) == c \in Range(UpperLetters) \cup Range(LowerLetters) \cup Range(Digits)

\* the words of a text: its maximal runs of letters and digits
Words(s) ==
    { SubSeq(s, i, j) : <<i, j>> \in
        { p \in (DOMAIN s) \X (DOMAIN s) :
            /\ p[1] <= p[2]
            /\ \A k \in p[1]..p[2] : IsAlnum(s[k])
            /\ (p[1] = 1 \/ ~IsAlnum(s[p[1] - 1]))
            /\ (p[2] = Len(s) \/ ~IsAlnum(s[p[2] + 1])) } }

\* pg_trgm: the trigrams of a text (each word lower-cased, padded with two
\* blanks before and one after)
WordTrigrams(w) ==
    LET padded == <<" ", " ">> \o w \o <<" ">>
    IN  { SubSeq(padded, k, k + 2) : k \in 1..(Len(padded) - 2) }
Trigrams(s) == UNION { WordTrigrams(w) : w \in Words(Lower(s)) }

\* similarity(a, b) = SimNum / SimDen
SimNum(a, b) == Cardinality(Trigrams(a) \cap Trigrams(b))
SimDen(a, b) == IF Trigrams(a) \cup Trigrams(b) = {} THEN 1
                ELSE Cardinality(Trigrams(a) \cup Trigrams(b))

\* alias ILIKE $1 for a pattern without wildcard characters
PgILike(a, p) == a # Null /\ Lower(a) = Lower(p)

\* resolve_stock_id: WHERE stock_id = $1 OR alias ILIKE $1
\*                   ORDER BY similarity(alias, $1) DESC LIMIT 1
\* (NULL similarity sorts first under DESC)
PgStockIdRows(t, name) ==
    LET hits == { r \in t : r.stock_id = name \/ PgILike(r.alias, name) }
        nulls == { r \in hits : r.alias = Null }
        first == IF nulls # {} THEN nulls
                 ELSE { x \in hits : \A y \in hits :
                          SimNum(y.alias, name) * SimDen(x.alias, name)
                            <= SimNum(x.alias, name) * SimDen(y.alias, name) }
    IN  { Match(r.stock_id, "match", r.alias) : r \in first }

\* resolve_stock_name: WHERE stock_id = $1 ORDER BY length(alias), alias LIMIT 1
\* (NULLs sort last)
PgAliasBefore(a, b) ==
    \/ a # Null /\ b = Null
    \/ a # Null /\ b # Null /\ Len(a) < Len(b)
    \/ a # Null /\ b # Null /\ Len(a) = Len(b) /\ LexLess(a, b)

PgStockNameRows(t, id) ==
    LET hits == { r \in t : r.stock_id = id }
        first == { x \in hits : \A y \in hits : ~PgAliasBefore(y.alias, x.alias) }
    IN  { Match(r.stock_id, "name", r.alias) : r \in first }

\* ---- the tables and keywords of the model ----
StockRow(c, n, a) ==
    [listCode |-> c, name |-> n, name3 |-> Null, name4 |-> Null, nameV2 |-> Null,
     nameAbbrV2 |-> a]
StockShapes ==
    { StockRow(<<"2","3">>, <<"9">>, Null),
      StockRow(<<"9">>, <<"2","3">>, Null),
      StockRow(<<"9">>, <<"2"," ","3">>, <<"2","3","2">>),
      StockRow(<<"3"," ">>, <<"2","3","2">>, Null),
      StockRow(<<"2"," ","3">>, <<" ","9">>, Null),
      StockRow(<<"9">>, Null, <<"3">>) }

IndustryRow(n, e, a) == [name |-> n, nameEng |-> e, nameAbbr |-> a]
IndustryShapes ==
    { IndustryRow(<<"2","3">>, Null, Null),
      IndustryRow(<<"2"," ","3">>, Null, <<"3">>),
      IndustryRow(<<"2","3","2">>, <<"2","3"," ">>, Null),
      IndustryRow(<<"9">>, Null, <<"3","2">>) }

AliasRow(i, a) == [stock_id |-> i, alias |-> a]
AliasShapes ==
    { AliasRow(<<"2","3">>, <<"9">>),
      AliasRow(<<"2","3">>, <<"9","9">>),
      AliasRow(<<"9">>, <<"2","3">>),
      AliasRow(<<"3">>, <<"2"," ","3">>),
      AliasRow(<<"3">>, <<"3","2">>) }

\* rows 1..n with ids 1..n, each of one of the shapes
WithIds(shapes) ==
    UNION { { { [id |-> i] @@ f[i] : i \in 1..n } : f \in [1..n -> shapes] } : n \in 0..MaxRows }

TablesOf(tool) ==
    CASE tool = "resolve_stock_id_mssql" -> WithIds(StockShapes)
      [] tool = "resolve_stock_industry" -> WithIds(IndustryShapes)
      [] OTHER -> { t \in SUBSET AliasShapes : Cardinality(t) <= MaxRows }

Keywords ==
    { <<"2","3">>, <<"2"," ","3">>, <<" ","2",FW,"\t","3"," ">>, <<"3">>,
      <<"7">>, <<>>, <<" ">> }

NoCall == [kw |-> <<>>, result |-> NoResult]

ResolverInit ==
    /\ rTool \in ResolverTools
    /\ table \in TablesOf(rTool)
    /\ keyword = <<>>
    /\ rPc = "idle"
    /\ rResult = NoResult
    /\ prev = NoCall

ResolverIdle ==
    /\ rTool = "resolve_stock_id"
    /\ table = {}
    /\ keyword = <<>>
    /\ rPc = "off"
    /\ rResult = NoResult
    /\ prev = NoCall

\* the server receives a call of the tool
ResolverCall ==
    /\ rPc = "idle"
    /\ \E kw \in Keywords : keyword' = kw
    /\ rResult' = NoResult
    /\ rPc' = "pool"
    /\ UNCHANGED <<rTool, table, prev>>
    /\ UNCHANGED <<runnerVars, guardVars, poolVars>>

\* pool = await get_pool(); async with pool.acquire() as conn
ResolverAcquire ==
    /\ rPc = "pool"
    /\ rPc' = IF rTool \in {"resolve_stock_id_mssql", "resolve_stock_industry"}
              THEN "stage1" ELSE "query"
    /\ UNCHANGED <<rTool, table, keyword, rResult, prev>>
    /\ UNCHANGED <<runnerVars, guardVars, poolVars>>

\* get_pool, acquire, execute or fetch raises: no resolver catches it
ResolverDbFails ==
    /\ rPc \in {"pool", "stage1", "stage2", "stage3", "query"}
    /\ rResult' = RaisedResult
    /\ rPc' = "done"
    /\ UNCHANGED <<rTool, table, keyword, prev>>
    /\ UNCHANGED <<runnerVars, guardVars, poolVars>>

\* (mutant) the row is used without `if row`: with no row, row[2] raises
StageUnchecked(rows, next) ==
    \/ /\ rows # {}
       /\ \E m \in rows : rResult' = m
       /\ rPc' = "done"
    \/ /\ rows = {}
       /\ rPc' = "done"
       /\ rResult' = [kind |-> "raised", id |-> Null, column |-> "TypeError", value |-> Null]

\* one stage of a chain: fetchone() gives one of `rows` (the statement fixes
\* no order among them) and the tool returns it; with no row, go on to `next`
\* ("done": return {})
Stage(rows, next) ==
    \/ /\ rows # {}
       /\ \E m \in rows : rResult' = m
       /\ rPc' = "done"
    \/ /\ rows = {}
       /\ rPc' = next
       /\ rResult' = IF next = "done" THEN EmptyResult ELSE rResult

StockStage1 ==
    /\ rTool = "resolve_stock_id_mssql" /\ rPc = "stage1"
    /\ Stage(StockStage1Rows(table, keyword), "stage2")
    /\ UNCHANGED <<rTool, table, keyword, prev>>
    /\ UNCHANGED <<runnerVars, guardVars, poolVars>>

StockStage2 ==
    /\ rTool = "resolve_stock_id_mssql" /\ rPc = "stage2"
    /\ Stage(StockStage2Rows(table, keyword), "stage3")
    /\ UNCHANGED <<rTool, table, keyword, prev>>
    /\ UNCHANGED <<runnerVars, guardVars, poolVars>>

StockStage3 ==
    /\ rTool = "resolve_stock_id_mssql" /\ rPc = "stage3"
    /\ Stage(StockStage3Rows(table, keyword), "done")
    /\ UNCHANGED <<rTool, table, keyword, prev>>
    /\ UNCHANGED <<runnerVars, guardVars, poolVars>>

IndustryExact ==
    /\ rTool = "resolve_stock_industry" /\ rPc = "stage1"
    /\ Stage(IndustryExactRows(table, keyword), "stage2")
    /\ UNCHANGED <<rTool, table, keyword, prev>>
    /\ UNCHANGED <<runnerVars, guardVars, poolVars>>

IndustryLike ==
    /\ rTool = "resolve_stock_industry" /\ rPc = "stage2"
    /\ Stage(IndustryLikeRows(table, keyword), "done")
    /\ UNCHANGED <<rTool, table, keyword, prev>>
    /\ UNCHANGED <<runnerVars, guardVars, poolVars>>

PgResolveStockId ==
    /\ rTool = "resolve_stock_id" /\ rPc = "query"
    /\ Stage(PgStockIdRows(table, keyword), "done")
    /\ UNCHANGED <<rTool, table, keyword, prev>>
    /\ UNCHANGED <<runnerVars, guardVars, poolVars>>

PgResolveStockName ==
    /\ rTool = "resolve_stock_name" /\ rPc = "query"
    /\ Stage(PgStockNameRows(table, keyword), "done")
    /\ UNCHANGED <<rTool, table, keyword, prev>>
    /\ UNCHANGED <<runnerVars, guardVars, poolVars>>

\* the tool has returned (or raised); the server waits for the next call
ResolverReturn ==
    /\ rPc = "done"
    /\ prev' = [kw |-> keyword, result |-> rResult]
    /\ rPc' = "idle"
    /\ UNCHANGED <<rTool, table, keyword, rResult>>
    /\ UNCHANGED <<runnerVars, guardVars, poolVars>>

-----------------------------------------------------------------------------
(***************************************************************************)
(* get_pool in one server process (mssqlserver, pgserver): the tool        *)
(* handlers are coroutines of one event loop; a handler runs without       *)
(* interruption from one await to the next.                                *)
(***************************************************************************)
PoolServers == {"mssqlserver", "pgserver"}
Handlers == 1..MaxHandlers

\* _pool = None
NoPool == 0
\* get_pool raised (create_pool failed)
PoolRaised == -1

PoolInit ==
    /\ pServer \in PoolServers
    /\ pool = NoPool
    /\ poolsCreated = 0
    /\ hPc = [h \in Handlers |-> "idle"]
    /\ hGot = [h \in Handlers |-> NoPool]

PoolIdle ==
    /\ pServer = "pgserver"
    /\ pool = NoPool
    /\ poolsCreated = 0
    /\ hPc = [h \in Handlers |-> "off"]
    /\ hGot = [h \in Handlers |-> NoPool]

\* a handler calls get_pool: `if _pool is None:` and either `return _pool`
\* or the call of create_pool, up to its await
GetPoolEnter ==
    /\ \E h \in Handlers :
          /\ hPc[h] = "idle"
          /\ \/ /\ pool # NoPool
                /\ hGot' = [hGot EXCEPT ![h] = pool]
                /\ hPc' = [hPc EXCEPT ![h] = "done"]
             \/ /\ pool = NoPool
                /\ hGot' = [hGot EXCEPT ![h] = NoPool]
                /\ hPc' = [hPc EXCEPT ![h] = "creating"]
    /\ UNCHANGED <<pServer, pool, poolsCreated>>
    /\ UNCHANGED <<runnerVars, guardVars, resolverVars>>

\* the await of create_pool ends: `_pool = <the new pool>; return _pool`, or
\* create_pool raises
GetPoolResume ==
    /\ \E h \in Handlers :
          /\ hPc[h] = "creating"
          /\ hPc' = [hPc EXCEPT ![h] = "done"]
          /\ \/ /\ poolsCreated' = poolsCreated + 1
                /\ pool' = poolsCreated + 1
                /\ hGot' = [hGot EXCEPT ![h] = poolsCreated + 1]
             \/ /\ hGot' = [hGot EXCEPT ![h] = PoolRaised]
                /\ UNCHANGED <<pool, poolsCreated>>
    /\ UNCHANGED pServer
    /\ UNCHANGED <<runnerVars, guardVars, resolverVars>>

\* the tool handler ends; the server may start it again for a later request
HandlerReturn ==
    /\ \E h \in Handlers :
          /\ hPc[h] = "done"
          /\ hPc' = [hPc EXCEPT ![h] = "idle"]
    /\ UNCHANGED <<pServer, pool, poolsCreated, hGot>>
    /\ UNCHANGED <<runnerVars, guardVars, resolverVars>>

-----------------------------------------------------------------------------
(***************************************************************************)
(* The specifications.                                                     *)
(***************************************************************************)
Init == RunnerInit /\ GuardIdle /\ ResolverIdle /\ PoolIdle

Next ==
    \/ ReadUser \/ ModelAnswers \/ ModelCallsTool \/ ParseArguments
    \/ RouteLookup \/ OpenSession \/ Initialize \/ CallTool \/ ReturnResult
    \/ AppendCallAndResult \/ AppendAnswer

Spec == Init /\ [][Next]_vars

\* chat() is not suspended for ever between statements: a returned dispatch
\* is appended and an answer is printed and appended.  (The model call, the
\* user's input and the backend are external and need not answer.)
SpecLive ==
    /\ Init /\ [][Next]_vars
    /\ WF_vars(ReturnResult) /\ WF_vars(AppendCallAndResult) /\ WF_vars(AppendAnswer)

InitGuard == RunnerIdle /\ GuardInit /\ ResolverIdle /\ PoolIdle

NextGuard == GuardCheck \/ GuardRewrite \/ GuardAcquire \/ GuardExecute

SpecGuard == InitGuard /\ [][NextGuard]_vars

InitPgQuery == RunnerIdle /\ PgQueryInit /\ ResolverIdle /\ PoolIdle

NextPgQuery == GuardCheck \/ GuardAcquire \/ GuardExecute

SpecPgQuery == InitPgQuery /\ [][NextPgQuery]_vars

InitResolver == RunnerIdle /\ GuardIdle /\ ResolverInit /\ PoolIdle

NextResolver ==
    \/ ResolverCall \/ ResolverAcquire \/ ResolverDbFails
    \/ StockStage1 \/ StockStage2 \/ StockStage3
    \/ IndustryExact \/ IndustryLike
    \/ PgResolveStockId \/ PgResolveStockName
    \/ ResolverReturn

SpecResolver == InitResolver /\ [][NextResolver]_vars

InitPool == RunnerIdle /\ GuardIdle /\ ResolverIdle /\ PoolInit

NextPool == GetPoolEnter \/ GetPoolResume \/ HandlerReturn

SpecPool == InitPool /\ [][NextPool]_vars

-----------------------------------------------------------------------------
(***************************************************************************)
(* Properties of the runner (checked under Spec).                          *)
(***************************************************************************)
Last(q) == q[Len(q)]

\* the messages appended since the current turn's input was read
TurnMessages == SubSeq(messages, turnStart + 1, Len(messages))

\* C1: a completed turn in which the model requested N tools and then
\* answered has appended exactly the user message, N pairs of a tool-call
\* message and the tool-result message of the same name, and one assistant
\* text; every tool-call message in the history is directly followed by its
\* own result, and the model is never called with a tool-call message last.
C1_TurnInterleaved ==
    /\ (pc = "input" /\ turnStart > 0) =>
          LET n == Len(turnCalls)
              t == TurnMessages
          IN  /\ Len(t) = 2 * n + 2
              /\ t[1] = UserMsg
              /\ \A k \in 1..n :
                    /\ t[2 * k].role = "assistant" /\ t[2 * k].kind = "call"
                    /\ t[2 * k].name = turnCalls[k]
                    /\ t[2 * k + 1].role = "function"
                    /\ t[2 * k + 1].name = turnCalls[k]
              /\ t[2 * n + 2] = TextMsg
    /\ \A i \in DOMAIN messages :
          messages[i].kind = "call" =>
             /\ i < Len(messages)
             /\ messages[i + 1].role = "function"
             /\ messages[i + 1].name = messages[i].name
    /\ pc = "model" => Last(messages).kind # "call"

\* a turn with two tool calls has been completed
C1_Witness ==
    /\ pc = "input" /\ turnStart > 0
    /\ Len(turnCalls) = 2
    /\ Last(messages) = TextMsg

\* run_tool is at work on msg, or has ended chat() with an exception
InRunTool ==
    \/ pc \in {"spawn", "initialize", "call_tool", "return", "append"}
    \/ pc = "crashed" /\ err \in {"KeyError"} \cup TransportFaults

\* C2: for a name in TOOL_ROUTE run_tool starts and calls the server
\* registered for that name and no other; for a name not in TOOL_ROUTE it
\* fails with KeyError having started no subprocess, initialized no session
\* and sent no call.
C2_RouteExact ==
    InRunTool =>
       IF msg.name \in DOMAIN TOOL_ROUTE
       THEN /\ err # "KeyError"
            /\ procs \subseteq {TOOL_ROUTE[msg.name]}
            /\ \A i \in DOMAIN trace : trace[i][2] = TOOL_ROUTE[msg.name]
            /\ pc = "append" =>
                  trace = << <<"spawn", TOOL_ROUTE[msg.name]>>,
                             <<"initialize", TOOL_ROUTE[msg.name]>>,
                             <<"call_tool", TOOL_ROUTE[msg.name], msg.name, "initialized">>,
                             <<"close", TOOL_ROUTE[msg.name]>> >>
       ELSE /\ pc = "crashed" /\ err = "KeyError"
            /\ trace = <<>>
            /\ procs = {}
            /\ sess \notin {"open", "initialized"}

\* an unrouted name has raised KeyError after a routed call to wxserver
C2_Witness ==
    /\ err = "KeyError"
    /\ \E i \in DOMAIN messages : messages[i].role = "function" /\ messages[i].name = "add"

\* C10 (the claim as stated): after a backend session failure in run_tool the
\* failed tool-call message is the last message of the history and chat()
\* goes on to read the next user input.
C10_FailedCallKept ==
    err \in TransportFaults => (Last(messages) = msg /\ pc = "input")

\* C11 (the claim as stated): once a tool-call argument text that is not
\* JSON, or is JSON off the tool's schema, has been handled, chat() is still
\* running (it reads the next input or calls the model again) and no
\* backend process or session was started for the request.
C11_MalformedRetryable ==
    (msg.kind = "call" /\ msg.content # "json" /\ pc # "parse") =>
        /\ pc \in {"input", "model"}
        /\ procs = {}
        /\ sess \notin {"open", "initialized"}

\* C12: a call is sent only on an initialized session: every call event of
\* a run_tool invocation comes after the completed initialize of its session
\* and after no failed one, and a failed initialize is the last event on its
\* channel.
C12_InitializeBeforeCall ==
    /\ pc = "call_tool" => sess = "initialized"
    /\ \A i \in DOMAIN trace :
          trace[i][1] \in {"call_tool", "call_tool_failed"} =>
             /\ trace[i][4] = "initialized"
             /\ \E j \in 1..(i - 1) : trace[j] = <<"initialize", trace[i][2]>>
             /\ \A j \in 1..(i - 1) : trace[j][1] # "initialize_failed"
    /\ \A i \in DOMAIN trace :
          trace[i][1] = "initialize_failed" => (i = Len(trace) /\ pc = "crashed")

\* the second tool call of a conversation has been answered by its session
C12_Witness ==
    /\ pc = "return"
    /\ Last(trace)[1] = "call_tool"
    /\ \E i \in DOMAIN messages : messages[i].role = "function"

\* C13: every advertised tool name has a route to one declared server, every
\* model call is sent the full tool_schemas, and a name taken from the
\* advertised set never fails the route lookup.
C13_AdvertisedRouted ==
    /\ tool_schemas \subseteq DOMAIN TOOL_ROUTE
    /\ \A n \in tool_schemas : TOOL_ROUTE[n] \in Servers
    /\ functions \in {{}, tool_schemas}
    /\ (pc \notin {"input", "model"} \/ Len(messages) > 2) => functions = tool_schemas
    /\ (msg.kind = "call" /\ msg.name \in functions) => err # "KeyError"

\* the advertised tool `add` has been routed to wxserver
C13_Witness ==
    /\ pc = "spawn"
    /\ msg.name = "add"
    /\ functions = McpToolSchemas
    /\ srv = "WX_SERVER"

\* C15 (the claim as stated): an exception that leaves run_tool after the
\* route lookup is a backend-unavailable error, not the fault stdio_client or
\* the session raised.
C15_BackendUnavailable ==
    (pc = "crashed" /\ err \notin {"JSONDecodeError", "KeyError"})
    => err = "BackendUnavailableError"

\* C16: run_tool returns the session's structuredContent as it is, and the
\* function message appended after the call carries the requested tool's
\* name and the JSON text of that value.
C16_ResultUnaltered ==
    /\ pc = "append" => result = res
    /\ (pc = "model" /\ Last(messages).role = "function") =>
          /\ messages[Len(messages) - 1] = msg
          /\ Last(messages).name = msg.name
          /\ Last(messages).content = JsonDumps(res)

\* a result without structured content went into the history as "null"
C16_Witness ==
    /\ pc = "model"
    /\ res = "None"
    /\ Last(messages).role = "function"
    /\ Last(messages).content = "null"

\* the orchestrator state a position of chat() belongs to
PhaseOf(p) ==
    CASE p = "input" -> "AwaitingUser"
      [] p = "model" -> "ModelThinking"
      [] p \in {"parse", "run_tool", "spawn", "initialize", "call_tool",
                "return", "append"} -> "ToolDispatch"
      [] p = "answer" -> "AnsweredToUser"
      [] OTHER -> "Terminated"

Transitions ==
    { <<"AwaitingUser", "ModelThinking">>, <<"ModelThinking", "ToolDispatch">>,
      <<"ToolDispatch", "ModelThinking">>, <<"ModelThinking", "AnsweredToUser">>,
      <<"AnsweredToUser", "AwaitingUser">> }

\* C20 (the claim as stated): every step of chat() stays in its orchestrator
\* state or takes one of the five listed transitions.
C20_ListedTransitionsOnly ==
    [][ \/ PhaseOf(pc') = PhaseOf(pc)
        \/ <<PhaseOf(pc), PhaseOf(pc')>> \in Transitions ]_vars

\* the tool-result messages appended in the current turn
DispatchesInTurn ==
    Cardinality({ i \in DOMAIN TurnMessages : TurnMessages[i].role = "function" })

\* C21: the inner loop of chat() has no cap: whenever the model is asked it
\* may request one more tool (up to the explored history length); a turn in
\* which it requested k tools and every dispatch returned has made exactly k
\* dispatches when the answer arrives; the answer state is entered only by a
\* text response, and is followed by the wait for the next input.
C21_NoIterationCap ==
    /\ []((pc = "model" /\ Len(messages) + 3 <= MaxMessages) => ENABLED ModelCallsTool)
    /\ [](pc = "answer" => DispatchesInTurn = Len(turnCalls))
    /\ []((pc = "input" /\ turnStart > 0) =>
            (DispatchesInTurn = Len(turnCalls) /\ Last(messages) = TextMsg))
    /\ [][pc' = "answer" => (pc = "model" /\ msg'.kind = "text")]_vars
    /\ (pc = "answer" ~> pc = "input")
    /\ (pc = "return" ~> pc = "model")

\* the model has answered after two dispatches in one turn
C21_Witness ==
    /\ pc = "answer"
    /\ Len(turnCalls) = 2
    /\ DispatchesInTurn = 2

\* the call events in the trace of the current run_tool invocation
CallEvents == { i \in DOMAIN trace : trace[i][1] \in {"call_tool", "call_tool_failed"} }

\* C22: chat() does one thing at a time: while the model is asked, input is
\* read or an answer is printed no backend process or session is open; a
\* dispatch has at most one process and one session, the one of the
\* requested tool's server, and sends at most one call on it.
C22_OneAtATime ==
    /\ Cardinality(procs) <= 1
    /\ procs \subseteq {srv}
    /\ pc \in {"input", "model", "answer"} =>
          (procs = {} /\ sess \notin {"open", "initialized"})
    /\ sess \in {"open", "initialized"} => pc \in {"initialize", "call_tool", "return"}
    /\ Cardinality(CallEvents) <= 1

\* a session to pgserver is in use after the one to wxserver was closed
C22_Witness ==
    /\ pc = "call_tool"
    /\ procs = {"PG_SERVER"}
    /\ \E i \in DOMAIN messages : messages[i].role = "function" /\ messages[i].name = "add"

\* C24: once a decodable request names a tool that is not in TOOL_ROUTE and
\* run_tool has been entered, chat() has ended with KeyError: neither the
\* tool-call message nor a result was appended and no step of chat() (a
\* model call, an input, an append) can follow.
C24_UnknownToolFatal ==
    ( /\ msg.kind = "call"
      /\ msg.content \in Decodable
      /\ msg.name \notin DOMAIN TOOL_ROUTE
      /\ pc \notin {"parse", "run_tool"} )
    => /\ pc = "crashed" /\ err = "KeyError"
       /\ Len(messages) = turnStart + 1 + 2 * (Len(turnCalls) - 1)
       /\ Last(messages).kind # "call"
       /\ ~ENABLED Next

\* mssql_runner ended on the first request of the conversation
C24_Witness ==
    /\ runner = "mssql_runner"
    /\ err = "KeyError"
    /\ messages = <<SystemMsg, UserMsg>>

\* C25: the history only grows at its end and begins with the system
\* message; leaving the answer state appends the answer as an assistant
\* text, so the next input is read with the answer last in the history.
C25_AppendOnly ==
    /\ [](messages[1] = SystemMsg)
    /\ [][ /\ Len(messages') >= Len(messages)
           /\ SubSeq(messages', 1, Len(messages)) = messages ]_vars
    /\ [][ (pc = "answer" /\ pc' # pc) =>
             /\ msg.role = "assistant" /\ msg.kind = "text"
             /\ messages' = Append(messages, msg) ]_vars
    /\ []((pc = "input" /\ Len(messages) > 1) => Last(messages) = TextMsg)

\* the second input was read after the first turn's call, result and answer
C25_Witness ==
    /\ pc = "model"
    /\ turnStart = 5
    /\ messages[turnStart] = TextMsg
    /\ messages[3].kind = "call"

\* C26: whenever run_tool is not between opening its session and leaving
\* it, no subprocess is alive and no session is open, also after an
\* exception; every invocation starts a new process and session and sends at
\* most one call on it.
C26_SessionScoped ==
    /\ pc \notin {"initialize", "call_tool", "return"} =>
          (procs = {} /\ sess \notin {"open", "initialized"})
    /\ pc = "spawn" => (trace = <<>> /\ sess \in {"none", "closed"})
    /\ Cardinality({ i \in DOMAIN trace : trace[i][1] = "spawn" }) <= 1
    /\ \A i \in CallEvents : \A j \in (i + 1)..Len(trace) : trace[j][1] = "close"
    /\ pc = "append" => Last(trace)[1] = "close"

\* a failed call ended chat() with the session closed and the process gone
C26_Witness ==
    /\ pc = "crashed"
    /\ err = "McpError"
    /\ Last(trace)[1] = "call_tool_failed"
    /\ procs = {}
    /\ sess = "closed"

-----------------------------------------------------------------------------
(***************************************************************************)
(* Properties of the query guard (checked under SpecGuard).                *)
(***************************************************************************)
\* the trimmed, lower-cased argument
LowArg == Lower(Strip(gArg))

\* the argument begins with a verb the dialect of the tool allows
AllowedPrefix ==
    \/ StartsWith(LowArg, KwSelect)
    \/ StartsWith(LowArg, KwWith)
    \/ gTool = "query_sql" /\ StartsWith(LowArg, KwExplain)

\* C3: a text that does not begin with select / with (query_sql: or explain)
\* is rejected with ValueError and nothing is handed to the database.
C3_RejectsOtherVerbs ==
    ~AllowedPrefix =>
        /\ gExec = <<>>
        /\ gPc \in {"check", "done"}
        /\ gPc = "done" => gOut = "ValueError"

\* query_sql_mssql has rejected an EXPLAIN statement
C3_Witness ==
    /\ gTool = "query_sql_mssql"
    /\ StartsWith(LowArg, KwExplain)
    /\ gPc = "done" /\ gOut = "ValueError"

\* the text " TOP (<limit>)" and the FETCH clause, as a bound on the rows
BoundsRows(stmt, limit) ==
    \/ Contains(stmt, <<" ","T","O","P"," ","(">> \o IntToStr(limit) \o <<")">>)
    \/ Contains(stmt, FetchClause(limit))

\* C4 (the claim as stated): every accepted statement of query_sql_mssql
\* with no " top ", no " fetch next " and no " order by " is executed with a
\* row limit of gLimit in it.
C4_AlwaysBounded ==
    ( /\ gTool = "query_sql_mssql"
      /\ gExec # <<>>
      /\ ~Contains(LowArg, KwTop)
      /\ ~Contains(LowArg, KwFetchNext)
      /\ ~Contains(LowArg, KwOrderBy) )
    => BoundsRows(gExec[1], gLimit)

\* C5 (the claim as stated): every accepted statement of query_sql_mssql that
\* contains " top " or " fetch next " is executed unchanged.
C5_LimitedUnchanged ==
    ( /\ gTool = "query_sql_mssql"
      /\ gExec # <<>>
      /\ (Contains(LowArg, KwTop) \/ Contains(LowArg, KwFetchNext)) )
    => gExec[1] = gArg

\* C6: the rewrite of query_sql_mssql is idempotent: the rewritten statement
\* is still accepted and rewriting it again with the same limit changes
\* nothing.
C6_RewriteIdempotent ==
    (gTool = "query_sql_mssql" /\ gPc \in {"pool", "execute", "done"} /\ gOut # "ValueError")
    => /\ MssqlAccepts(gSql)
       /\ MssqlRewrite(gSql, gLimit) = gSql

\* a statement into which the TOP clause was injected has been executed
C6_Witness ==
    /\ gTool = "query_sql_mssql"
    /\ gPc = "done" /\ gOut = "rows"
    /\ gSql # gArg
    /\ StartsWith(gSql, TopClause(gLimit))
    /\ gExec = <<gSql>>

\* C14 (the claim as stated): whenever query_sql_mssql ends without rows
\* (guard rejection, pool or execution failure) it has returned the
\* {"error", "sql"} payload and raised nothing.
C14_FailureIsPayload ==
    (gTool = "query_sql_mssql" /\ gPc = "done" /\ gOut # "rows")
    => gOut = "error_payload"

\* the text holds an ORDER BY clause: the words `order` and `by` set off by
\* whitespace of any kind
OrderByClause(s) ==
    \E i \in 1..(Len(s) - 9) :
        /\ IsSpace(s[i])
        /\ SubSeq(s, i + 1, i + 5) = <<"o","r","d","e","r">>
        /\ IsSpace(s[i + 6])
        /\ SubSeq(s, i + 7, i + 8) = <<"b","y">>
        /\ IsSpace(s[i + 9])

\* the text names no row limit at all
NoLimitClause(s) ==
    /\ ~Contains(s, <<"t","o","p">>)
    /\ ~Contains(s, <<"f","e","t","c","h">>)

-----------------------------------------------------------------------------
(***************************************************************************)
(* Properties of the resolvers (checked under SpecResolver).               *)
(***************************************************************************)
\* the call in progress has returned a value (it did not end in a database
\* exception)
Returned == rPc = "done" /\ rResult # RaisedResult

\* C7: when a record's listCode equals the trimmed keyword, the result is
\* the id of a record matched on listCode, tagged 'listCode', whatever the
\* aliases match; stage 2 is reached only when stage 1 found no row and
\* stage 3 only when stage 2 found none either.
C7_ListCodeWins ==
    rTool = "resolve_stock_id_mssql" =>
       /\ (Returned /\ \E r \in table : r.listCode = KwRaw(keyword)) =>
             /\ rResult.kind = "match"
             /\ rResult.column = "listCode"
             /\ \E r \in table : /\ r.id = rResult.id
                                 /\ SqlEq(r.listCode, KwRaw(keyword))
                                 /\ rResult.value = r.listCode
       /\ rPc \in {"stage2", "stage3"} =>
             ~\E r \in table : SqlEq(r.listCode, KwRaw(keyword))
       /\ rPc = "stage3" => StockStage2Rows(table, keyword) = {}
       /\ (Returned /\ rResult.kind = "match" /\ rResult.column # "listCode") =>
             ~\E r \in table : SqlEq(r.listCode, KwRaw(keyword))

\* the listCode record was returned although another record has the keyword
\* as an alias
C7_Witness ==
    /\ rTool = "resolve_stock_id_mssql"
    /\ Returned
    /\ rResult.kind = "match" /\ rResult.column = "listCode"
    /\ \E m \in StockStage2Rows(table, keyword) : m.id # rResult.id

\* two keywords differ only by ASCII blanks, full-width blanks and tabs
SameUpToSpaces(a, b) ==
    RemoveChar(RemoveChar(RemoveChar(a, " "), FW), "\t")
      = RemoveChar(RemoveChar(RemoveChar(b, " "), FW), "\t")

\* the previous call and this one returned values for keywords that differ
\* only by blanks
SpaceVariantCalls ==
    /\ rTool = "resolve_stock_id_mssql"
    /\ Returned
    /\ prev.result.kind \in {"match", "empty"}
    /\ SameUpToSpaces(prev.kw, keyword)

\* no stage of the chain has rows of two records to choose from
OneRecordPerStage(t, kw) ==
    /\ Cardinality({ m.id : m \in StockStage1Rows(t, kw) }) <= 1
    /\ Cardinality({ m.id : m \in StockStage2Rows(t, kw) }) <= 1
    /\ Cardinality({ m.id : m \in StockStage3Rows(t, kw) }) <= 1

\* C8 (the claim as stated, on tables where the row a stage returns is not
\* a matter of choice): two keywords that differ only by blanks resolve to
\* the same identifier over the same table.
C8_SameIdentifier ==
    ( /\ SpaceVariantCalls
      /\ OneRecordPerStage(table, prev.kw)
      /\ OneRecordPerStage(table, keyword) )
    => rResult.id = prev.result.id

\* the rows the alias stages offer for a keyword
AliasCandidates(t, kw) ==
    IF StockStage2Rows(t, kw) # {} THEN StockStage2Rows(t, kw) ELSE StockStage3Rows(t, kw)

\* C8 (amended): when neither keyword matches a listCode, the alias stages
\* see the same normalized keyword: this call returns one of the rows the
\* alias stages offer for the previous keyword ({} when there is none), and
\* the same identifier when those rows belong to one record.
C8_AliasStagesSpaceBlind ==
    ( /\ SpaceVariantCalls
      /\ StockStage1Rows(table, prev.kw) = {}
      /\ StockStage1Rows(table, keyword) = {} )
    => LET cand == AliasCandidates(table, prev.kw)
       IN  /\ cand = {} => rResult = EmptyResult
           /\ cand # {} => rResult \in cand
           /\ Cardinality({ m.id : m \in cand }) <= 1 => rResult.id = prev.result.id

\* "23" and the same digits with blanks of all three kinds resolved to the
\* same record through an alias
C8_Witness ==
    /\ SpaceVariantCalls
    /\ prev.kw = <<"2","3">>
    /\ keyword = <<" ","2",FW,"\t","3"," ">>
    /\ rResult.kind = "match" /\ rResult.column # "listCode"
    /\ rResult.id = prev.result.id

\* some stage of the tool's chain matches the keyword
AnyStageMatches ==
    CASE rTool = "resolve_stock_id_mssql" ->
            StockStage1Rows(table, keyword) \cup StockStage2Rows(table, keyword)
              \cup StockStage3Rows(table, keyword) # {}
      [] rTool = "resolve_stock_industry" ->
            IndustryExactRows(table, keyword) \cup IndustryLikeRows(table, keyword) # {}
      [] rTool = "resolve_stock_id" -> PgStockIdRows(table, keyword) # {}
      [] OTHER -> PgStockNameRows(table, keyword) # {}

\* C9: unless the database raised, every resolver returns a value, and the
\* value is {} exactly when no stage matches the keyword (the empty and the
\* blank keyword included).
C9_EmptyIffNoMatch ==
    Returned =>
       /\ rResult.kind \in {"match", "empty"}
       /\ (rResult = EmptyResult) <=> ~AnyStageMatches

\* a keyword no row matches returned {} from a table with rows
C9_Witness ==
    /\ Returned
    /\ rTool = "resolve_stock_id_mssql"
    /\ keyword = <<"7">>
    /\ table # {}
    /\ rResult = EmptyResult

\* C18 (the claim as stated, for resolve_stock_id_mssql): a match returned by
\* the substring stage has the shortest alias among the aliases that contain
\* the keyword (shown for keywords that are not blank, and without the
\* tie-break among aliases of one length).
C18_ShortestAliasFirst ==
    ( /\ rTool = "resolve_stock_id_mssql"
      /\ Returned
      /\ rResult.kind = "match"
      /\ KwNs(keyword) # <<>>
      /\ StockStage1Rows(table, keyword) = {}
      /\ StockStage2Rows(table, keyword) = {} )
    => \A m \in StockStage3Rows(table, keyword) : Len(rResult.value) <= Len(m.value)

\* the (row, column) pairs of the industry table with a value
IndustryCells ==
    { p \in table \X Range(IndustryColumns) : p[1][p[2]] # Null }

\* the three-stage chain of the stock resolver run over the industry
\* aliases: exact, exact without blanks, substring without blanks
ThreeStageRows ==
    LET cell(p) == p[1][p[2]]
        hit(p) == Match(p[1].id, p[2], Strip(cell(p)))
        s1 == { p \in IndustryCells : SqlEq(cell(p), KwRaw(keyword)) }
        s2 == { p \in IndustryCells : SqlEq(Nosp(cell(p)), KwNs(keyword)) }
        s3 == { p \in IndustryCells : SqlLikeContains(Nosp(cell(p)), KwNs(keyword)) }
    IN  IF s1 # {} THEN { hit(p) : p \in s1 }
        ELSE IF s2 # {} THEN { hit(p) : p \in s2 }
        ELSE { hit(p) : p \in s3 }

\* C19 (the claim as stated): resolve_stock_industry returns what the
\* three-stage chain gives on its aliases: one of the rows of the first
\* stage that matches, {} when none does.
C19_SameChainAsStock ==
    (rTool = "resolve_stock_industry" /\ Returned) =>
        IF ThreeStageRows = {} THEN rResult = EmptyResult
        ELSE rResult \in ThreeStageRows

\* C19 (amended): resolve_stock_industry is a two-stage chain over name,
\* nameEng and nameAbbr with no removal of inner whitespace: an alias equal
\* to the trimmed keyword is returned if there is one; otherwise the
\* shortest, then smallest, alias that contains the trimmed keyword;
\* otherwise {}.
C19_TwoStageChain ==
    (rTool = "resolve_stock_industry" /\ Returned) =>
        LET cell(p) == p[1][p[2]]
            hit(p) == Match(p[1].id, p[2], Strip(cell(p)))
            exact == { p \in IndustryCells : RTrim(cell(p)) = Strip(keyword) }
            like == { p \in IndustryCells : Contains(cell(p), Strip(keyword)) }
            first == { p \in like : \A q \in like : ~AliasBefore(cell(q), cell(p)) }
        IN  /\ exact # {} => rResult \in { hit(p) : p \in exact }
            /\ (exact = {} /\ like # {}) => rResult \in { hit(p) : p \in first }
            /\ like = {} => rResult = EmptyResult

\* "2 3" was not resolved although the table holds the alias "23"
C19_Witness ==
    /\ rTool = "resolve_stock_industry"
    /\ Returned
    /\ keyword = <<"2"," ","3">>
    /\ rResult = EmptyResult
    /\ \E p \in IndustryCells : p[1][p[2]] = <<"2","3">>

-----------------------------------------------------------------------------
(***************************************************************************)
(* Properties of get_pool (checked under SpecPool).                        *)
(***************************************************************************)
\* C23 (the claim as stated): however the handlers interleave, create_pool
\* has made at most one pool and all handlers that were given a pool were
\* given the same one.
C23_SinglePool ==
    /\ poolsCreated <= 1
    /\ \A h1, h2 \in Handlers :
          (hGot[h1] > NoPool /\ hGot[h2] > NoPool) => hGot[h1] = hGot[h2]

-----------------------------------------------------------------------------
(***************************************************************************)
(* Properties of pgserver's query_sql (checked under SpecPgQuery).         *)
(***************************************************************************)
\* C27: an accepted statement is sent to the database as it was given and
\* the tool returns rows[:limit]: for a limit >= 0 the first min(n, limit)
\* of the n rows, so never more than limit; for a negative limit the first
\* max(n + limit, 0) rows.
C27_LimitSlicesRows ==
    (gTool = "query_sql" /\ gPc = "done" /\ gOut = "rows") =>
        LET n == Len(gDb)
        IN  /\ gExec = <<gArg>>
            /\ gLimit >= 0 =>
                  /\ Len(gRet) = (IF n < gLimit THEN n ELSE gLimit)
                  /\ Len(gRet) <= gLimit
            /\ gLimit < 0 =>
                  Len(gRet) = (IF n + gLimit > 0 THEN n + gLimit ELSE 0)
            /\ \A i \in DOMAIN gRet : gRet[i] = gDb[i]

\* limit -1 over two rows returned the first row only
C27_Witness ==
    /\ gTool = "query_sql"
    /\ gPc = "done" /\ gOut = "rows"
    /\ gLimit = -1
    /\ Len(gDb) = 2
    /\ gRet = <<gDb[1]>>

=============================================================================
